---- MODULE Spec2Model ----
(***************************************************************************)
(* A model of ouster/sdkx/parsing.py: packet formats, masked field views,  *)
(* the default scan field tables, scan -> packet buffer reconstruction,    *)
(* the terminator buffer and buffers_to_scan.                              *)
(*                                                                         *)
(* Buffers are sequences of bytes (0..255), addressed from 0 in the code   *)
(* and from 1 here.  Integers read from or written to a buffer are kept as *)
(* 64-bit little-endian bit vectors (index 1 = bit 0), because the        *)
(* integers of TLC are narrower than the 32/40/64-bit words of the wire    *)
(* format.  Integer arithmetic of numpy is the one of numpy 1.x (value     *)
(* based promotion): MaskedView.__setitem__ passes the negative Python     *)
(* integer ~mask to an unsigned operand, which only that promotion accepts.*)
(***************************************************************************)
EXTENDS Integers, Sequences, FiniteSets, TLC

VARIABLES
    info,       \* sensor metadata / packet format in use (a record)
    data,       \* the caller's packet buffer, a sequence of bytes
    prev,       \* the buffer as it was before the last operation
    op,         \* the last operation: its name, arguments, result, error
    wr,         \* the last successful MaskedView write (or NoOp)
    pc,         \* position in the scenario: "start", "written", "done"
    ret,        \* what the last from_profile / default_scan_fields call returned
    tables,     \* the module-level default field tables (mutable dicts)
    lidar_bufs, \* the list of buffers given to buffers_to_scan
    submitted,  \* what buffers_to_scan has handed to the batcher, in order
    bpc,        \* buffers_to_scan: position in the function
    scan,       \* the RAW_HEADERS channel of the scan being reconstructed
    gen         \* the state of the two reconstruction generators

vars == <<info, data, prev, op, wr, pc, ret, tables, lidar_bufs, submitted, bpc, scan, gen>>

----------------------------------------------------------------------------
(* Bounds of the model.                                                    *)

MaxPixels == 2
MaxCols == 2
EdgeIds == 2

----------------------------------------------------------------------------
(* 64-bit vectors: the integers of the program.                            *)

WordBits == 64

Pow2(n) == 2 ^ n

\* a natural below 2^31 as a bit vector
IntBits(v) == [i \in 1..WordBits |-> IF i <= 31 THEN (v \div Pow2(i - 1)) % 2 ELSE 0]

\* little-endian bytes, zero-extended (an unsigned dtype promoted to 64 bits)
BytesBits(bs) ==
    [i \in 1..WordBits |->
        IF (i - 1) \div 8 < Len(bs)
        THEN (bs[((i - 1) \div 8) + 1] \div Pow2((i - 1) % 8)) % 2
        ELSE 0]

\* the low n bytes of a bit vector (a cast to an n-byte unsigned dtype wraps)
BitsBytes(b, n) ==
    [k \in 1..n |->
        b[8 * (k - 1) + 1] + 2 * b[8 * (k - 1) + 2] + 4 * b[8 * (k - 1) + 3]
        + 8 * b[8 * (k - 1) + 4] + 16 * b[8 * (k - 1) + 5] + 32 * b[8 * (k - 1) + 6]
        + 64 * b[8 * (k - 1) + 7] + 128 * b[8 * (k - 1) + 8]]

BitAnd(a, b) == [i \in 1..WordBits |-> a[i] * b[i]]
BitOr(a, b) == [i \in 1..WordBits |-> IF a[i] + b[i] > 0 THEN 1 ELSE 0]
BitNot(a) == [i \in 1..WordBits |-> 1 - a[i]]
ShiftLeft(a, s) == [i \in 1..WordBits |-> IF i > s THEN a[i - s] ELSE 0]
\* the operands shifted right in the program are never negative
ShiftRight(a, s) == [i \in 1..WordBits |-> IF i + s <= WordBits THEN a[i + s] ELSE 0]

ZeroBits == [i \in 1..WordBits |-> 0]

----------------------------------------------------------------------------
(* Byte buffers.                                                           *)

\* Python slice b[lo:hi] of a sequence (0-based, clamped to the length)
Clamp(x, n) == IF x < 0 THEN 0 ELSE IF x > n THEN n ELSE x
Slice(b, lo, hi) ==
    LET l == Clamp(lo, Len(b))
        h == Clamp(hi, Len(b))
    IN  IF h <= l THEN <<>> ELSE [k \in 1..(h - l) |-> b[l + k]]

\* b with the bytes from 0-based offset off replaced by bs (which fit)
Patch(b, off, bs) ==
    [k \in 1..Len(b) |-> IF k > off /\ k <= off + Len(bs) THEN bs[k - off] ELSE b[k]]

Filled(n, byte) == [k \in 1..n |-> byte]

----------------------------------------------------------------------------
(* Field descriptors and packet formats.                                   *)

\* dtype is kept as its size in bytes (np.uint8 = 1 ... np.uint64 = 8)
FieldDescr(offset, dtype, mask, shift) ==
    [offset |-> offset, dtype |-> dtype, mask |-> mask, shift |-> shift]

ChanFields ==
    {"RANGE", "RANGE2", "SIGNAL", "SIGNAL2", "REFLECTIVITY", "REFLECTIVITY2",
     "NEAR_IR", "FLAGS", "FLAGS2"}

ColHeaders == {"TIMESTAMP", "ENCODER_COUNT", "MEASUREMENT_ID", "STATUS", "FRAME_ID"}

LegacyFormat_HEADERS ==
    ("TIMESTAMP" :> FieldDescr(0, 8, 0, 0)) @@
    ("MEASUREMENT_ID" :> FieldDescr(8, 2, 0, 0)) @@
    ("FRAME_ID" :> FieldDescr(10, 2, 0, 0)) @@
    ("ENCODER_COUNT" :> FieldDescr(12, 4, 0, 0)) @@
    ("STATUS" :> FieldDescr(-4, 4, 0, 0))

LegacyFormat_FIELDS ==
    ("RANGE" :> FieldDescr(0, 4, 1048575, 0)) @@
    ("REFLECTIVITY" :> FieldDescr(4, 2, 0, 0)) @@
    ("SIGNAL" :> FieldDescr(6, 2, 0, 0)) @@
    ("FLAGS" :> FieldDescr(3, 1, 0, 4)) @@
    ("NEAR_IR" :> FieldDescr(8, 2, 0, 0))

EUDPFormat_HEADERS ==
    ("TIMESTAMP" :> FieldDescr(0, 8, 0, 0)) @@
    ("MEASUREMENT_ID" :> FieldDescr(8, 2, 0, 0)) @@
    ("STATUS" :> FieldDescr(10, 2, 0, 0))

LBFormat_FIELDS ==
    ("RANGE" :> FieldDescr(0, 2, 32767, -3)) @@
    ("REFLECTIVITY" :> FieldDescr(2, 1, 0, 0)) @@
    ("NEAR_IR" :> FieldDescr(3, 1, 0, -4))

SingleFormat_FIELDS ==
    ("RANGE" :> FieldDescr(0, 4, 1048575, 0)) @@
    ("REFLECTIVITY" :> FieldDescr(4, 2, 0, 0)) @@
    ("SIGNAL" :> FieldDescr(6, 2, 0, 0)) @@
    ("FLAGS" :> FieldDescr(3, 1, 0, 4)) @@
    ("NEAR_IR" :> FieldDescr(8, 2, 0, 0))

DualFormat_FIELDS ==
    ("RANGE" :> FieldDescr(0, 4, 524287, 0)) @@
    ("REFLECTIVITY" :> FieldDescr(3, 1, 0, 0)) @@
    ("RANGE2" :> FieldDescr(4, 4, 524287, 0)) @@
    ("REFLECTIVITY2" :> FieldDescr(7, 1, 0, 0)) @@
    ("SIGNAL" :> FieldDescr(8, 2, 0, 0)) @@
    ("SIGNAL2" :> FieldDescr(10, 2, 0, 0)) @@
    ("FLAGS" :> FieldDescr(2, 1, 248, 3)) @@
    ("FLAGS2" :> FieldDescr(6, 1, 248, 3)) @@
    ("NEAR_IR" :> FieldDescr(12, 2, 0, 0))

FormatClasses == {"LegacyFormat", "LBFormat", "SingleFormat", "DualFormat"}

FIELDS(cls) ==
    CASE cls = "LegacyFormat" -> LegacyFormat_FIELDS
      [] cls = "LBFormat" -> LBFormat_FIELDS
      [] cls = "SingleFormat" -> SingleFormat_FIELDS
      [] cls = "DualFormat" -> DualFormat_FIELDS

HEADERS(cls) ==
    IF cls = "LegacyFormat" THEN LegacyFormat_HEADERS ELSE EUDPFormat_HEADERS

\* PacketFormat.__init__: the geometry and the two derived sizes
PacketFormat(cls, packet_header_size, columns_per_packet, col_header_size, pixels_per_column, channel_data_size, col_footer_size, packet_footer_size) ==
    LET column_size == col_header_size + pixels_per_column * channel_data_size
                       + col_footer_size
    IN  [cls |-> cls,
         packet_header_size |-> packet_header_size,
         columns_per_packet |-> columns_per_packet,
         col_header_size |-> col_header_size,
         pixels_per_column |-> pixels_per_column,
         channel_data_size |-> channel_data_size,
         col_footer_size |-> col_footer_size,
         packet_footer_size |-> packet_footer_size,
         column_size |-> column_size,
         lidar_packet_size |-> packet_header_size + columns_per_packet * column_size
                               + packet_footer_size]

LegacyFormat(pixels_per_column, columns_per_packet) ==
    PacketFormat("LegacyFormat", 0, columns_per_packet, 16, pixels_per_column, 12, 4, 0)

EUDPFormat(cls, pixels_per_column, columns_per_packet, channel_data_size) ==
    PacketFormat(cls, 32, columns_per_packet, 12, pixels_per_column,
                 channel_data_size, 0, 32)

LBFormat(pixels_per_column, columns_per_packet) ==
    EUDPFormat("LBFormat", pixels_per_column, columns_per_packet, 4)

SingleFormat(pixels_per_column, columns_per_packet) ==
    EUDPFormat("SingleFormat", pixels_per_column, columns_per_packet, 12)

DualFormat(pixels_per_column, columns_per_packet) ==
    EUDPFormat("DualFormat", pixels_per_column, columns_per_packet, 16)

\* UDPProfileLidar; "CUSTOM" stands for a profile added after this module
PROFILE_LIDAR_LEGACY == "LEGACY"
PROFILE_LIDAR_RNG15_RFL8_NIR8 == "RNG15_RFL8_NIR8"
PROFILE_LIDAR_RNG19_RFL8_SIG16_NIR16 == "RNG19_RFL8_SIG16_NIR16"
PROFILE_LIDAR_RNG19_RFL8_SIG16_NIR16_DUAL == "RNG19_RFL8_SIG16_NIR16_DUAL"
PROFILE_LIDAR_FIVE_WORD_PIXEL == "FIVE_WORD_PIXEL"

Profiles ==
    {PROFILE_LIDAR_LEGACY, PROFILE_LIDAR_RNG15_RFL8_NIR8,
     PROFILE_LIDAR_RNG19_RFL8_SIG16_NIR16,
     PROFILE_LIDAR_RNG19_RFL8_SIG16_NIR16_DUAL,
     PROFILE_LIDAR_FIVE_WORD_PIXEL, "CUSTOM"}

\* the dict of from_profile with an entry for the five-word profile
formats_WithFiveWord ==
    (PROFILE_LIDAR_LEGACY :> "LegacyFormat") @@
    (PROFILE_LIDAR_RNG19_RFL8_SIG16_NIR16_DUAL :> "DualFormat") @@
    (PROFILE_LIDAR_RNG19_RFL8_SIG16_NIR16 :> "SingleFormat") @@
    (PROFILE_LIDAR_RNG15_RFL8_NIR8 :> "LBFormat") @@
    (PROFILE_LIDAR_FIVE_WORD_PIXEL :> "DualFormat")

\* the dict of from_profile: profile -> constructor
formats ==
    (PROFILE_LIDAR_LEGACY :> "LegacyFormat") @@
    (PROFILE_LIDAR_RNG19_RFL8_SIG16_NIR16_DUAL :> "DualFormat") @@
    (PROFILE_LIDAR_RNG19_RFL8_SIG16_NIR16 :> "SingleFormat") @@
    (PROFILE_LIDAR_RNG15_RFL8_NIR8 :> "LBFormat")

Construct(cls, pixels_per_column, columns_per_packet) ==
    CASE cls = "LegacyFormat" -> LegacyFormat(pixels_per_column, columns_per_packet)
      [] cls = "LBFormat" -> LBFormat(pixels_per_column, columns_per_packet)
      [] cls = "SingleFormat" -> SingleFormat(pixels_per_column, columns_per_packet)
      [] cls = "DualFormat" -> DualFormat(pixels_per_column, columns_per_packet)

\* from_profile: formats[profile](...) raises KeyError for a missing key
from_profile(profile, pixels_per_column, columns_per_packet) ==
    IF profile \in DOMAIN formats
    THEN [err |-> "none",
          pf |-> Construct(formats[profile], pixels_per_column, columns_per_packet)]
    ELSE [err |-> "KeyError"]

\* from_metadata: info carries the profile and the geometry
from_metadata(meta) ==
    from_profile(meta.udp_profile_lidar, meta.pixels_per_column,
                 meta.columns_per_packet)

----------------------------------------------------------------------------
(* MaskedView.                                                             *)

\* a variant of MaskedView that looks the key up before it tests the length
MaskedView_KeyFirst(d, pf, kind, field) ==
    IF kind = "ChanField" /\ field \notin DOMAIN FIELDS(pf.cls) THEN [err |-> "KeyError"]
    ELSE IF kind # "ChanField" /\ field \notin DOMAIN HEADERS(pf.cls) THEN [err |-> "KeyError"]
    ELSE IF Len(d) < pf.lidar_packet_size THEN [err |-> "BufferTooSmall"]
    ELSE IF kind = "ChanField"
    THEN IF field \notin DOMAIN FIELDS(pf.cls) THEN [err |-> "KeyError"]
         ELSE LET f == FIELDS(pf.cls)[field]
                  base == pf.packet_header_size + pf.col_header_size + f.offset
              IN  IF (Len(d) - base) % f.dtype # 0 THEN [err |-> "ViewError"]
                  ELSE [err |-> "none", base |-> base, dtype |-> f.dtype,
                        rows |-> pf.pixels_per_column, cols |-> pf.columns_per_packet,
                        row_stride |-> pf.channel_data_size,
                        col_stride |-> pf.column_size,
                        mask |-> f.mask, shift |-> f.shift]
    ELSE IF field \notin DOMAIN HEADERS(pf.cls) THEN [err |-> "KeyError"]
         ELSE LET f == HEADERS(pf.cls)[field]
                  start == IF f.offset >= 0 THEN 0 ELSE pf.column_size
                  base == pf.packet_header_size + f.offset + start
              IN  IF (Len(d) - base) % f.dtype # 0 THEN [err |-> "ViewError"]
                  ELSE [err |-> "none", base |-> base, dtype |-> f.dtype,
                        rows |-> 1, cols |-> pf.columns_per_packet,
                        row_stride |-> 0,
                        col_stride |-> pf.column_size,
                        mask |-> f.mask, shift |-> f.shift]

\* MaskedView.__init__: the strided window of one field or column header.
\* base is the byte offset of element 0; a field view has shape
\* (pixels_per_column, columns_per_packet) and strides (channel_data_size,
\* column_size), a header view shape (columns_per_packet,) and stride
\* column_size.  ndarray.view(dtype) raises ValueError unless the byte length
\* of the slice is a multiple of the item size.
MaskedView(d, pf, kind, field) ==
    IF Len(d) < pf.lidar_packet_size THEN [err |-> "BufferTooSmall"]
    ELSE IF kind = "ChanField"
    THEN IF field \notin DOMAIN FIELDS(pf.cls) THEN [err |-> "KeyError"]
         ELSE LET f == FIELDS(pf.cls)[field]
                  base == pf.packet_header_size + pf.col_header_size + f.offset
              IN  IF (Len(d) - base) % f.dtype # 0 THEN [err |-> "ViewError"]
                  ELSE [err |-> "none", base |-> base, dtype |-> f.dtype,
                        rows |-> pf.pixels_per_column, cols |-> pf.columns_per_packet,
                        row_stride |-> pf.channel_data_size,
                        col_stride |-> pf.column_size,
                        mask |-> f.mask, shift |-> f.shift]
    ELSE IF field \notin DOMAIN HEADERS(pf.cls) THEN [err |-> "KeyError"]
         ELSE LET f == HEADERS(pf.cls)[field]
                  start == IF f.offset >= 0 THEN 0 ELSE pf.column_size
                  base == pf.packet_header_size + f.offset + start
              IN  IF (Len(d) - base) % f.dtype # 0 THEN [err |-> "ViewError"]
                  ELSE [err |-> "none", base |-> base, dtype |-> f.dtype,
                        rows |-> 1, cols |-> pf.columns_per_packet,
                        row_stride |-> 0,
                        col_stride |-> pf.column_size,
                        mask |-> f.mask, shift |-> f.shift]

\* PacketFormat.field / PacketFormat.header
PacketFormat_field(pf, d, field) == MaskedView(d, pf, "ChanField", field)
PacketFormat_header(pf, d, header) == MaskedView(d, pf, "ColHeader", header)

\* byte offset of element (i, j) of a view (i = 0 for a header view)
ElemAddr(v, i, j) == v.base + i * v.row_stride + j * v.col_stride

\* the stored word of element (i, j), an unsigned integer of v.dtype bytes
RawElem(d, v, i, j) == BytesBits(Slice(d, ElemAddr(v, i, j), ElemAddr(v, i, j) + v.dtype))

Abs(x) == IF x < 0 THEN -x ELSE x

\* MaskedView.__getitem__ for an integer key: a numpy scalar, which the
\* Python int operands promote to 64 bits before the mask and the shift
MaskedView_getitem(d, v, i, j) ==
    LET value == RawElem(d, v, i, j)
        masked == IF v.mask # 0 THEN BitAnd(value, IntBits(v.mask)) ELSE value
    IN  IF v.shift > 0 THEN ShiftRight(masked, v.shift)
        ELSE IF v.shift < 0 THEN ShiftLeft(masked, Abs(v.shift))
        ELSE masked

\* a bit vector cast to an unsigned dtype of n bytes
Cast(b, n) == BytesBits(BitsBytes(b, n))

\* MaskedView.__getitem__ for the key [:, j] of a field view: an array of
\* the dtype of the view, which Python int operands do not widen, so the
\* mask and the shift are computed in that dtype, one element per row
MaskedView_getitem_column(d, v, j) ==
    [r \in 1..v.rows |-> Cast(MaskedView_getitem(d, v, r - 1, j), v.dtype)]

\* StoredWord with the shift forgotten on the way in
StoredWord_NoShift(old, v, val) ==
    IF v.mask # 0
    THEN BitOr(BitAnd(val, IntBits(v.mask)), BitAnd(old, BitNot(IntBits(v.mask))))
    ELSE val

\* StoredWord with the old bits outside the mask dropped
StoredWord_NoMerge(old, v, val) ==
    LET shifted == IF v.shift > 0 THEN ShiftLeft(val, v.shift)
                   ELSE IF v.shift < 0 THEN ShiftRight(val, Abs(v.shift))
                   ELSE val
    IN  IF v.mask # 0 THEN BitAnd(shifted, IntBits(v.mask)) ELSE shifted

\* the word MaskedView.__setitem__ stores for the Python int val (as bits)
StoredWord(old, v, val) ==
    LET shifted == IF v.shift > 0 THEN ShiftLeft(val, v.shift)
                   ELSE IF v.shift < 0 THEN ShiftRight(val, Abs(v.shift))
                   ELSE val
    IN  IF v.mask # 0
        THEN BitOr(BitAnd(shifted, IntBits(v.mask)), BitAnd(old, BitNot(IntBits(v.mask))))
        ELSE shifted

\* MaskedView.__setitem__ for an integer key: the buffer after the write
\* (the assignment casts the 64-bit value to the dtype of the view)
MaskedView_setitem(d, v, i, j, val) ==
    Patch(d, ElemAddr(v, i, j),
          BitsBytes(StoredWord(RawElem(d, v, i, j), v, val), v.dtype))

\* MaskedView.__setitem__ for the key [:] of a header view: every column
RECURSIVE SetAllCols(_, _, _, _)
SetAllCols(d, v, j, val) ==
    IF j >= v.cols THEN d
    ELSE SetAllCols(MaskedView_setitem(d, v, 0, j, val), v, j + 1, val)

----------------------------------------------------------------------------
(* Packet-level getters and setters.  Each returns a record: err, and the  *)
(* value read (result, as bits) or the buffer after the write (data).      *)

\* int.from_bytes(data[lo:hi].tobytes(), byteorder='little')
FromBytes(d, lo, hi) == [err |-> "none", result |-> BytesBits(Slice(d, lo, hi))]

\* data[lo:hi] = memoryview(val.to_bytes(n, byteorder='little')), n = hi - lo:
\* to_bytes raises OverflowError when val needs more than n bytes, and the
\* assignment raises ValueError when the slice of data is not n bytes long
\* (val is below 2^31 in this model, so it always fits 4 bytes or more)
ToBytes(d, lo, hi, val) ==
    IF hi - lo < 4 /\ val >= Pow2(8 * (hi - lo)) THEN [err |-> "OverflowError", data |-> d]
    ELSE IF Len(Slice(d, lo, hi)) # hi - lo THEN [err |-> "ValueError", data |-> d]
    ELSE [err |-> "none", data |-> Patch(d, lo, BitsBytes(IntBits(val), hi - lo))]

packet_type(pf, d) ==
    IF pf.cls = "LegacyFormat" THEN [err |-> "none", result |-> ZeroBits]
    ELSE FromBytes(d, 0, 2)

set_packet_type(pf, d, val) ==
    IF pf.cls = "LegacyFormat" THEN [err |-> "none", data |-> d]
    ELSE ToBytes(d, 0, 2, val)

frame_id(pf, d) ==
    IF pf.cls = "LegacyFormat"
    THEN LET v == PacketFormat_header(pf, d, "FRAME_ID")
         IN  IF v.err # "none" THEN [err |-> v.err, result |-> ZeroBits]
             ELSE [err |-> "none", result |-> MaskedView_getitem(d, v, 0, 0)]
    ELSE FromBytes(d, 2, 4)

set_frame_id(pf, d, val) ==
    IF pf.cls = "LegacyFormat"
    THEN LET v == PacketFormat_header(pf, d, "FRAME_ID")
         IN  IF v.err # "none" THEN [err |-> v.err, data |-> d]
             ELSE [err |-> "none", data |-> SetAllCols(d, v, 0, IntBits(val))]
    ELSE ToBytes(d, 2, 4, val)

init_id(pf, d) ==
    IF pf.cls = "LegacyFormat" THEN [err |-> "none", result |-> ZeroBits]
    ELSE FromBytes(d, 4, 7)

set_init_id(pf, d, val) ==
    IF pf.cls = "LegacyFormat" THEN [err |-> "none", data |-> d]
    ELSE ToBytes(d, 4, 7, val)

prod_sn(pf, d) ==
    IF pf.cls = "LegacyFormat" THEN [err |-> "none", result |-> ZeroBits]
    ELSE FromBytes(d, 7, 12)

set_prod_sn(pf, d, val) ==
    IF pf.cls = "LegacyFormat" THEN [err |-> "none", data |-> d]
    ELSE ToBytes(d, 7, 12, val)

Getters == {"packet_type", "frame_id", "init_id", "prod_sn"}
Setters == {"set_packet_type", "set_frame_id", "set_init_id", "set_prod_sn"}

Getter(name, pf, d) ==
    CASE name = "packet_type" -> packet_type(pf, d)
      [] name = "frame_id" -> frame_id(pf, d)
      [] name = "init_id" -> init_id(pf, d)
      [] name = "prod_sn" -> prod_sn(pf, d)

Setter(name, pf, d, val) ==
    CASE name = "set_packet_type" -> set_packet_type(pf, d, val)
      [] name = "set_frame_id" -> set_frame_id(pf, d, val)
      [] name = "set_init_id" -> set_init_id(pf, d, val)
      [] name = "set_prod_sn" -> set_prod_sn(pf, d, val)

---------------------------------------------------------------------------------------------------------------------------------------------------
(* Inputs of the model: metadata, buffers, values.                         *)

SupportedProfiles == DOMAIN formats

\* SensorInfo.format: the four values the module reads
SensorInfo(profile, pixels_per_column, columns_per_packet, columns_per_frame) ==
    [udp_profile_lidar |-> profile,
     pixels_per_column |-> pixels_per_column,
     columns_per_packet |-> columns_per_packet,
     columns_per_frame |-> columns_per_frame]

\* the format of the metadata in use (defined for the supported profiles)
PF == from_metadata(info).pf

Fills == {"ones", "ramp"}

FillByte(fill, k) ==
    CASE fill = "zero" -> 0
      [] fill = "ones" -> 255
      [] fill = "ramp" -> (37 * k + 11) % 256

Buffer(fill, n) == [k \in 1..n |-> FillByte(fill, k)]

\* values written through views and setters (Python ints, all below 2^31)
Values == {5, 16, 255, 4080, 65535, 262136, 1048575, 1048576}

NoOp ==
    [name |-> "none", key |-> "none", idx |-> <<0, 0>>, val |-> 0,
     err |-> "none", result |-> ZeroBits, buf |-> <<>>]

Op(name, key, idx, val, err, result, buf) ==
    [name |-> name, key |-> key, idx |-> idx, val |-> val,
     err |-> err, result |-> result, buf |-> buf]

\* an operation that raised: no element was reached, no value used
Raised(name, key, err) == Op(name, key, <<0, 0>>, 0, err, ZeroBits, <<>>)

\* values of the variables a specification does not use
NoReturn == [kind |-> "none"]
IdleTables == <<>>
IdleBatch == lidar_bufs = <<>> /\ submitted = <<>> /\ bpc = "idle"
IdleRecon == scan = <<>> /\ gen = <<>>

----------------------------------------------------------------------------
(* SpecView: one write of an element through a masked view of a buffer     *)
(* drawn from the inputs, and one read of an element (before or after).    *)

InitView ==
    \E profile \in SupportedProfiles, ppc \in 1..MaxPixels, cpp \in 1..MaxCols,
       fill \in Fills, short \in 0..1 :
        /\ info = SensorInfo(profile, ppc, cpp, cpp)
        /\ data = Buffer(fill, from_profile(profile, ppc, cpp).pf.lidar_packet_size - short)
        /\ prev = data
        /\ op = NoOp
        /\ wr = NoOp
        /\ pc = "start"
        /\ ret = NoReturn
        /\ tables = IdleTables
        /\ IdleBatch
        /\ IdleRecon

UnchangedOthers == UNCHANGED <<info, ret, tables, lidar_bufs, submitted, bpc, scan, gen>>

\* pf.field(data, field)[i, j] = val
FieldSet(field, i, j, val) ==
    /\ pc = "start"
    /\ LET v == PacketFormat_field(PF, data, field)
       IN  IF v.err # "none"
           THEN /\ op' = Raised("field_set", field, v.err)
                /\ UNCHANGED <<data, wr>>
           ELSE /\ data' = MaskedView_setitem(data, v, i, j, IntBits(val))
                /\ op' = Op("field_set", field, <<i, j>>, val, "none", ZeroBits, <<>>)
                /\ wr' = op'
    /\ prev' = data
    /\ pc' = "written"
    /\ UnchangedOthers

\* pf.field(data, field)[i, j]
FieldGet(field, i, j) ==
    /\ pc \in {"start", "written"}
    /\ LET v == PacketFormat_field(PF, data, field)
       IN  IF v.err # "none"
           THEN op' = Raised("field_get", field, v.err)
           ELSE op' = Op("field_get", field, <<i, j>>, 0, "none",
                         MaskedView_getitem(data, v, i, j), <<>>)
    /\ pc' = "done"
    /\ UNCHANGED <<data, prev, wr>>
    /\ UnchangedOthers

\* pf.header(data, header)[j] = val
HeaderSet(header, j, val) ==
    /\ pc = "start"
    /\ LET v == PacketFormat_header(PF, data, header)
       IN  IF v.err # "none"
           THEN /\ op' = Raised("header_set", header, v.err)
                /\ UNCHANGED <<data, wr>>
           ELSE /\ data' = MaskedView_setitem(data, v, 0, j, IntBits(val))
                /\ op' = Op("header_set", header, <<0, j>>, val, "none", ZeroBits, <<>>)
                /\ wr' = op'
    /\ prev' = data
    /\ pc' = "written"
    /\ UnchangedOthers

\* pf.header(data, header)[j]
HeaderGet(header, j) ==
    /\ pc \in {"start", "written"}
    /\ LET v == PacketFormat_header(PF, data, header)
       IN  IF v.err # "none"
           THEN op' = Raised("header_get", header, v.err)
           ELSE op' = Op("header_get", header, <<0, j>>, 0, "none",
                         MaskedView_getitem(data, v, 0, j), <<>>)
    /\ pc' = "done"
    /\ UNCHANGED <<data, prev, wr>>
    /\ UnchangedOthers

\* pf.field(data, field)[:, j]
FieldGetColumn(field, j) ==
    /\ pc \in {"start", "written"}
    /\ LET v == PacketFormat_field(PF, data, field)
       IN  IF v.err # "none"
           THEN /\ op' = Raised("field_get_column", field, v.err)
                /\ ret' = NoReturn
           ELSE /\ op' = Op("field_get_column", field, <<0, j>>, 0, "none", ZeroBits, <<>>)
                /\ ret' = [kind |-> "column",
                           values |-> MaskedView_getitem_column(data, v, j)]
    /\ pc' = "done"
    /\ UNCHANGED <<data, prev, wr, info, tables, lidar_bufs, submitted, bpc, scan, gen>>

Rows == 0..(info.pixels_per_column - 1)
Cols == 0..(info.columns_per_packet - 1)

NextView ==
    \/ pc = "start" /\ \E field \in ChanFields, i \in Rows, j \in Cols, val \in Values :
          FieldSet(field, i, j, val)
    \/ pc # "done" /\ \E field \in ChanFields, i \in Rows, j \in Cols :
          FieldGet(field, i, j)
    \/ pc = "start" /\ \E header \in ColHeaders, j \in Cols, val \in Values :
          HeaderSet(header, j, val)
    \/ pc # "done" /\ \E header \in ColHeaders, j \in Cols : HeaderGet(header, j)
    \/ pc # "done" /\ \E field \in ChanFields, j \in Cols : FieldGetColumn(field, j)

SpecView == InitView /\ [][NextView]_vars

----------------------------------------------------------------------------
(* Claims about masked views (SpecView).                                   *)

\* the view a successful write or read op went through
ViewOf(o) ==
    IF o.name \in {"field_set", "field_get"}
    THEN PacketFormat_field(PF, data, o.key)
    ELSE PacketFormat_header(PF, data, o.key)

IsWrite(o) == o.name \in {"field_set", "header_set"} /\ o.err = "none"
IsRead(o) == o.name \in {"field_get", "header_get"} /\ o.err = "none"

\* op reads back the element wr wrote
ReadsBack ==
    /\ pc = "done" /\ IsWrite(wr) /\ IsRead(op)
    /\ (wr.name = "field_set") = (op.name = "field_get")
    /\ op.key = wr.key /\ op.idx = wr.idx

\* the largest raw word a field can hold: its mask, or its storage width
\* (4 and 8 byte words without mask hold every value of the model)
Capacity(f) ==
    IF f.mask # 0 THEN f.mask
    ELSE IF f.dtype >= 4 THEN 2147483647 ELSE Pow2(8 * f.dtype) - 1

\* V is stored without loss: shifted into place it is exact and fits
Representable(f, V) ==
    IF f.shift >= 0 THEN V * Pow2(f.shift) <= Capacity(f)
    ELSE V % Pow2(Abs(f.shift)) = 0 /\ V \div Pow2(Abs(f.shift)) <= Capacity(f)

\* C4 (as stated): a value written through a masked view reads back as
\* itself, for every field, every value and every prior buffer content.
C4_RoundTripAny == ReadsBack => op.result = IntBits(wr.val)

\* C4 (amended): a value written through a masked view reads back as itself
\* exactly when the field can represent it: shifted into storage it loses no
\* low bits and does not exceed the mask (the storage width without mask).
C4_RoundTripRepresentable ==
    ReadsBack => (op.result = IntBits(wr.val) <=> Representable(ViewOf(wr), wr.val))

C4_Witness ==
    /\ ReadsBack
    /\ info.udp_profile_lidar = PROFILE_LIDAR_RNG15_RFL8_NIR8
    /\ wr.key = "RANGE" /\ wr.val = 262136
    /\ op.result = IntBits(262136)

\* C5: a write through a masked view changes only the bits of the written
\* element inside the mask (the whole word without mask): the other bits of
\* the word, every other byte, and so the value of every other element and
\* field of the profile stay as they were; Dual FLAGS := 5 stores 0b00101
\* in bits 3..7 of its byte and keeps the low three bits.  (An element
\* whose bytes are unchanged reads as before; the others are read.)
OtherReadsKept(kind, keys, rows) ==
    \A key \in keys, i \in rows, j \in Cols :
        LET v == MaskedView(data, PF, kind, key)
            w == MaskedView(prev, PF, kind, key)
        IN  \/ (kind = "ChanField") = (wr.name = "field_set")
               /\ key = wr.key /\ <<i, j>> = wr.idx
            \/ v.err # "none"
            \/ Slice(data, ElemAddr(v, i, j), ElemAddr(v, i, j) + v.dtype)
               = Slice(prev, ElemAddr(v, i, j), ElemAddr(v, i, j) + v.dtype)
            \/ MaskedView_getitem(data, v, i, j) = MaskedView_getitem(prev, w, i, j)

C5_WriteFrame ==
    (pc = "written" /\ IsWrite(wr)) =>
        LET v == ViewOf(wr)
            a == ElemAddr(v, wr.idx[1], wr.idx[2])
            outside == IF v.mask # 0 THEN BitNot(IntBits(v.mask)) ELSE ZeroBits
        IN  /\ Len(data) = Len(prev)
            /\ \A k \in 1..Len(data) : (k <= a \/ k > a + v.dtype) => data[k] = prev[k]
            /\ BitAnd(RawElem(data, v, wr.idx[1], wr.idx[2]), outside)
               = BitAnd(RawElem(prev, v, wr.idx[1], wr.idx[2]), outside)
            /\ OtherReadsKept("ChanField", DOMAIN FIELDS(PF.cls), Rows)
            /\ OtherReadsKept("ColHeader", DOMAIN HEADERS(PF.cls), {0})
            /\ (PF.cls = "DualFormat" /\ wr.key = "FLAGS" /\ wr.val = 5)
                  => data[a + 1] = 40 + (prev[a + 1] % 8)

C5_Witness ==
    /\ IsWrite(wr) /\ pc = "written"
    /\ PF.cls = "DualFormat" /\ wr.key = "FLAGS" /\ wr.val = 5 /\ wr.idx = <<1, 1>>
    /\ data # prev
    /\ LET a == ElemAddr(ViewOf(wr), 1, 1) IN prev[a + 1] = 255 /\ data[a + 1] = 47

----------------------------------------------------------------------------
(* SpecPacket: one packet-level setter and one getter on a buffer that may *)
(* be shorter than the packet.                                             *)

\* lengths of the caller's buffer: the packet, one byte less, the twelve
\* metadata bytes of the extended header, and less than that
BufferLengths(size) == {size + 1, size, size - 1, 12, 3}

InitPacket ==
    \E profile \in SupportedProfiles, ppc \in 1..MaxPixels, cpp \in 1..MaxCols,
       fill \in Fills :
        \E n \in BufferLengths(from_profile(profile, ppc, cpp).pf.lidar_packet_size) :
            /\ info = SensorInfo(profile, ppc, cpp, cpp)
            /\ data = Buffer(fill, n)
            /\ prev = data
            /\ op = NoOp
            /\ wr = NoOp
            /\ pc = "start"
            /\ ret = NoReturn
            /\ tables = IdleTables
            /\ IdleBatch
            /\ IdleRecon

\* pf.set_packet_type(data, val) and the three other setters
PacketSet(name, val) ==
    /\ pc = "start"
    /\ LET r == Setter(name, PF, data, val)
       IN  /\ data' = r.data
           /\ op' = Op(name, "none", <<0, 0>>, val, r.err, ZeroBits, <<>>)
           /\ wr' = IF r.err = "none" THEN op' ELSE wr
    /\ prev' = data
    /\ pc' = "written"
    /\ UnchangedOthers

\* pf.packet_type(data) and the three other getters
PacketGet(name) ==
    /\ pc \in {"start", "written"}
    /\ LET r == Getter(name, PF, data)
       IN  op' = Op(name, "none", <<0, 0>>, 0, r.err, r.result, <<>>)
    /\ pc' = "done"
    /\ UNCHANGED <<data, prev, wr>>
    /\ UnchangedOthers

NextPacket ==
    \/ \E name \in Setters, val \in Values : PacketSet(name, val)
    \/ \E name \in Getters : PacketGet(name)

SpecPacket == InitPacket /\ [][NextPacket]_vars

\* C9 (as stated): every packet-level getter and setter fails with a
\* buffer-too-small error on a buffer shorter than packet_size, returning
\* no value and leaving the buffer unchanged.
C9_ShortBufferFails ==
    (op.name \in Getters \cup Setters /\ Len(data) < PF.lidar_packet_size)
        => (op.err = "BufferTooSmall" /\ data = prev)

----------------------------------------------------------------------------
(* The default field tables and from_profile (SpecFields).                 *)

\* the module-level dicts: channel -> dtype (size in bytes)
legacy_scan_fields ==
    ("RANGE" :> 4) @@ ("SIGNAL" :> 4) @@ ("NEAR_IR" :> 4) @@ ("REFLECTIVITY" :> 4)

lb_scan_fields ==
    ("RANGE" :> 4) @@ ("REFLECTIVITY" :> 2) @@ ("NEAR_IR" :> 2)

single_scan_fields ==
    ("RANGE" :> 4) @@ ("SIGNAL" :> 2) @@ ("NEAR_IR" :> 2) @@ ("REFLECTIVITY" :> 2)

dual_scan_fields ==
    ("RANGE" :> 4) @@ ("RANGE2" :> 4) @@ ("SIGNAL" :> 2) @@ ("SIGNAL2" :> 2) @@
    ("REFLECTIVITY" :> 2) @@ ("REFLECTIVITY2" :> 2) @@ ("NEAR_IR" :> 2)

five_word_pixel_fields ==
    ("RANGE" :> 4) @@ ("RANGE2" :> 4) @@ ("SIGNAL" :> 2) @@ ("SIGNAL2" :> 2) @@
    ("REFLECTIVITY" :> 2) @@ ("REFLECTIVITY2" :> 2) @@ ("NEAR_IR" :> 2) @@
    ("RAW32_WORD1" :> 4) @@ ("RAW32_WORD2" :> 4) @@ ("RAW32_WORD3" :> 4) @@
    ("RAW32_WORD4" :> 4) @@ ("RAW32_WORD5" :> 4)

\* the dicts as they are when the module is loaded, keyed as profile_fields
ModuleTables ==
    (PROFILE_LIDAR_LEGACY :> legacy_scan_fields) @@
    (PROFILE_LIDAR_RNG15_RFL8_NIR8 :> lb_scan_fields) @@
    (PROFILE_LIDAR_RNG19_RFL8_SIG16_NIR16 :> single_scan_fields) @@
    (PROFILE_LIDAR_RNG19_RFL8_SIG16_NIR16_DUAL :> dual_scan_fields) @@
    (PROFILE_LIDAR_FIVE_WORD_PIXEL :> five_word_pixel_fields)

\* dict.update({k: v})
Update(d, k, v) == (k :> v) @@ d

\* default_scan_fields on the tables t: what it returns and what it leaves
\* in the tables.  fields is the dict of the table itself, not a copy, so
\* every update lands in the table; the copy is made of the updated dict.
default_scan_fields(t, profile, flags, raw_headers) ==
    IF profile \notin DOMAIN t THEN [ret |-> [kind |-> "None"], tables |-> t]
    ELSE LET f0 == t[profile]
             f1 == IF flags THEN Update(f0, "FLAGS", 1) ELSE f0
             f2 == IF flags /\ profile = PROFILE_LIDAR_RNG19_RFL8_SIG16_NIR16_DUAL
                   THEN Update(f1, "FLAGS2", 1) ELSE f1
             f3 == IF raw_headers THEN Update(f2, "RAW_HEADERS", 4) ELSE f2
         IN  [ret |-> [kind |-> "fields", fields |-> f3],
              tables |-> [t EXCEPT ![profile] = f3]]

NoInfo == SensorInfo("none", 0, 0, 0)

InitFields ==
    /\ tables = ModuleTables
    /\ ret = NoReturn
    /\ op = NoOp
    /\ info = NoInfo
    /\ data = <<>> /\ prev = <<>> /\ wr = NoOp /\ pc = "start"
    /\ IdleBatch
    /\ IdleRecon

Bit(b) == IF b THEN 1 ELSE 0

DefaultScanFields(profile, flags, raw_headers) ==
    /\ LET r == default_scan_fields(tables, profile, flags, raw_headers)
       IN  /\ tables' = r.tables
           /\ ret' = r.ret
    /\ op' = Op("default_scan_fields", profile, <<Bit(flags), Bit(raw_headers)>>, 0,
                "none", ZeroBits, <<>>)
    /\ UNCHANGED <<info, data, prev, wr, pc, lidar_bufs, submitted, bpc, scan, gen>>

FromProfile(profile, pixels_per_column, columns_per_packet) ==
    /\ LET r == from_profile(profile, pixels_per_column, columns_per_packet)
       IN  /\ ret' = IF r.err = "none" THEN [kind |-> "format", pf |-> r.pf]
                     ELSE [kind |-> "raised"]
           /\ op' = Op("from_profile", profile, <<pixels_per_column, columns_per_packet>>,
                       0, r.err, ZeroBits, <<>>)
    /\ UNCHANGED <<tables, info, data, prev, wr, pc, lidar_bufs, submitted, bpc, scan, gen>>

NextFields ==
    \/ \E profile \in Profiles, flags \in BOOLEAN, raw_headers \in BOOLEAN :
          DefaultScanFields(profile, flags, raw_headers)
    \/ \E profile \in Profiles, ppc \in 1..MaxPixels, cpp \in 1..MaxCols :
          FromProfile(profile, ppc, cpp)

SpecFields == InitFields /\ [][NextFields]_vars

\* what the documentation promises for (profile, flags, raw_headers)
ExpectedFields(profile, flags, raw_headers) ==
    LET base == ModuleTables[profile]
        f1 == IF flags THEN ("FLAGS" :> 1) @@ base ELSE base
        f2 == IF flags /\ profile = PROFILE_LIDAR_RNG19_RFL8_SIG16_NIR16_DUAL
              THEN ("FLAGS2" :> 1) @@ f1 ELSE f1
    IN  IF raw_headers THEN ("RAW_HEADERS" :> 4) @@ f2 ELSE f2

\* C2 (as stated): whatever calls came before, default_scan_fields returns
\* for a recognised profile its base table plus exactly the optional
\* channels the call asks for (FLAGS, FLAGS2 for dual, RAW_HEADERS).
C2_ResultIndependentOfHistory ==
    (op.name = "default_scan_fields" /\ op.key \in DOMAIN ModuleTables)
        => (ret.kind = "fields"
            /\ ret.fields = ExpectedFields(op.key, op.idx[1] = 1, op.idx[2] = 1))


\* C10: from_profile returns the Legacy, Low-bandwidth, Single-return or
\* Dual-return format with the given geometry for the matching profile and
\* raises, returning no format, for every other profile - the five-word
\* profile included, which default_scan_fields does recognise.
VariantOf(profile) ==
    CASE profile = PROFILE_LIDAR_LEGACY -> <<"LegacyFormat", 12, 0>>
      [] profile = PROFILE_LIDAR_RNG15_RFL8_NIR8 -> <<"LBFormat", 4, 32>>
      [] profile = PROFILE_LIDAR_RNG19_RFL8_SIG16_NIR16 -> <<"SingleFormat", 12, 32>>
      [] profile = PROFILE_LIDAR_RNG19_RFL8_SIG16_NIR16_DUAL -> <<"DualFormat", 16, 32>>
      [] OTHER -> <<"none", 0, 0>>

C10_FromProfile ==
    /\ op.name = "from_profile" =>
          IF VariantOf(op.key)[1] # "none"
          THEN /\ op.err = "none" /\ ret.kind = "format"
               /\ ret.pf.cls = VariantOf(op.key)[1]
               /\ ret.pf.channel_data_size = VariantOf(op.key)[2]
               /\ ret.pf.packet_header_size = VariantOf(op.key)[3]
               /\ ret.pf.pixels_per_column = op.idx[1]
               /\ ret.pf.columns_per_packet = op.idx[2]
          ELSE op.err # "none" /\ ret.kind = "raised"
    /\ (op.name = "default_scan_fields" /\ op.key = PROFILE_LIDAR_FIVE_WORD_PIXEL)
          => ret.kind = "fields"

C10_Witness ==
    /\ op.name = "from_profile" /\ op.key = PROFILE_LIDAR_FIVE_WORD_PIXEL
    /\ op.err = "KeyError" /\ ret.kind = "raised"
    /\ "FLAGS" \in DOMAIN tables[PROFILE_LIDAR_FIVE_WORD_PIXEL]

----------------------------------------------------------------------------
(* terminator_buffer (SpecTerm).                                           *)

\* client._client.PacketFormat.from_info: the library's own format, which
\* knows the five-word profile too (a pixel of five 32-bit words)
ClientPacketFormat(meta) ==
    IF meta.udp_profile_lidar = PROFILE_LIDAR_FIVE_WORD_PIXEL
    THEN EUDPFormat("FiveWordFormat", meta.pixels_per_column, meta.columns_per_packet, 20)
    ELSE from_metadata(meta).pf

\* byte offset of the 16-bit frame id of a packet: the FRAME_ID header of
\* column 0 (legacy), bytes 2..3 of the packet header (extended family)
ClientFrameIdOffset(meta) ==
    IF meta.udp_profile_lidar = PROFILE_LIDAR_LEGACY THEN 10 ELSE 2

\* client._client.PacketFormat.frame_id
ClientFrameId(meta, buf) ==
    buf[ClientFrameIdOffset(meta) + 1] + 256 * buf[ClientFrameIdOffset(meta) + 2]

\* terminator_buffer with the next frame id saturating at 65535 instead of
\* wrapping
terminator_buffer_Saturating(meta, last_buf) ==
    LET pf == ClientPacketFormat(meta)
        curr_fid == ClientFrameId(meta, last_buf)
        r == from_metadata(meta)
    IN  IF r.err # "none" THEN [err |-> r.err, buf |-> <<>>]
        ELSE IF Len(last_buf) < pf.lidar_packet_size
        THEN [err |-> "ValueError", buf |-> <<>>]
        ELSE LET last_buf_view == Slice(last_buf, 0, pf.lidar_packet_size)
                 fid == frame_id(r.pf, last_buf_view)
             IN  IF fid.err # "none" THEN [err |-> fid.err, buf |-> <<>>]
                 ELSE IF fid.result # IntBits(curr_fid)
                 THEN [err |-> "AssertionError", buf |-> <<>>]
                 ELSE LET tbuf == Filled(pf.lidar_packet_size, 254)
                          next == IF curr_fid < 65535 THEN curr_fid + 1 ELSE 65535
                          w == set_frame_id(r.pf, tbuf, next)
                      IN  [err |-> w.err, buf |-> w.data]

\* terminator_buffer: [err, buf]
terminator_buffer(meta, last_buf) ==
    LET pf == ClientPacketFormat(meta)
        curr_fid == ClientFrameId(meta, last_buf)
        r == from_metadata(meta)
    IN  IF r.err # "none" THEN [err |-> r.err, buf |-> <<>>]
        ELSE IF Len(last_buf) < pf.lidar_packet_size
        THEN [err |-> "ValueError", buf |-> <<>>]
        ELSE LET last_buf_view == Slice(last_buf, 0, pf.lidar_packet_size)
                 fid == frame_id(r.pf, last_buf_view)
             IN  IF fid.err # "none" THEN [err |-> fid.err, buf |-> <<>>]
                 ELSE IF fid.result # IntBits(curr_fid)
                 THEN [err |-> "AssertionError", buf |-> <<>>]
                 ELSE LET tbuf == Filled(pf.lidar_packet_size, 254)
                          w == set_frame_id(r.pf, tbuf, (curr_fid + 1) % 65535)
                      IN  [err |-> w.err, buf |-> w.data]

\* frame ids of the last real buffer: both ends of the 16-bit range and
\* the byte boundary
FrameIds == (0..EdgeIds) \cup ((65535 - EdgeIds)..65535) \cup {255, 256}

\* a packet buffer of n bytes carrying frame id f (in every column, legacy)
LastBuffer(meta, fill, f, n) ==
    LET pf == ClientPacketFormat(meta)
        legacy == meta.udp_profile_lidar = PROFILE_LIDAR_LEGACY
        at(k) == IF legacy
                 THEN IF k - 1 < pf.lidar_packet_size THEN (k - 1) % pf.column_size ELSE -1
                 ELSE k - 1
    IN  [k \in 1..n |->
            IF at(k) = ClientFrameIdOffset(meta) THEN f % 256
            ELSE IF at(k) = ClientFrameIdOffset(meta) + 1 THEN f \div 256
            ELSE FillByte(fill, k)]

KnownProfiles == SupportedProfiles \cup {PROFILE_LIDAR_FIVE_WORD_PIXEL}

InitTerm ==
    \E profile \in KnownProfiles, ppc \in 1..MaxPixels, cpp \in 1..MaxCols,
       fill \in Fills, f \in FrameIds, extra \in 0..1 :
        /\ info = SensorInfo(profile, ppc, cpp, cpp)
        /\ data = LastBuffer(info, fill, f, ClientPacketFormat(info).lidar_packet_size + extra)
        /\ prev = data
        /\ op = NoOp
        /\ wr = NoOp
        /\ pc = "start"
        /\ ret = NoReturn
        /\ tables = IdleTables
        /\ IdleBatch
        /\ IdleRecon

\* terminator_buffer(info, data)
TerminatorBuffer ==
    /\ pc = "start"
    /\ LET r == terminator_buffer(info, data)
       IN  op' = Op("terminator_buffer", info.udp_profile_lidar, <<0, 0>>,
                    ClientFrameId(info, data), r.err, ZeroBits, r.buf)
    /\ pc' = "done"
    /\ UNCHANGED <<data, prev, wr>>
    /\ UnchangedOthers

NextTerm == TerminatorBuffer

SpecTerm == InitTerm /\ [][NextTerm]_vars

\* C1 (as stated): the frame id field of the buffer terminator_buffer
\* returns reads back as (f + 1) mod 65536, f the frame id of the last real
\* buffer; 65535 is followed by 0 and 65534 by 65535.
C1_NextFrameIdMod65536 ==
    (op.name = "terminator_buffer" /\ op.err = "none")
        => frame_id(PF, op.buf).result = IntBits((op.val + 1) % 65536)

-----------------------------------------------------------------------------
(* SpecBatch: buffers_to_scan.  The scan batcher is the client library's;   *)
(* each call of it is one step whose result (scan complete or not) is       *)
(* either value.  submitted is the log of the calls made.                   *)

MaxBufs == 2

\* frame ids of the supplied buffers
BatchFrameIds == {1, 65534}

\* the packet buffers a caller may supply for the metadata
PacketBuffers(meta) ==
    {LastBuffer(meta, fill, f, ClientPacketFormat(meta).lidar_packet_size) :
        fill \in Fills, f \in BatchFrameIds}

\* lists of at most n elements of S
Lists(S, n) == UNION {[1..k -> S] : k \in 0..n}

Submission(kind, buf, done) == [kind |-> kind, buf |-> buf, done |-> done]

InitBatch ==
    \E profile \in KnownProfiles, ppc \in 1..MaxPixels, cpp \in 1..MaxCols :
        /\ info = SensorInfo(profile, ppc, cpp, cpp)
        /\ lidar_bufs \in Lists(PacketBuffers(info), MaxBufs)
        /\ submitted = <<>>
        /\ bpc = "start"
        /\ tables = ModuleTables
        /\ ret = NoReturn
        /\ op = NoOp
        /\ data = <<>> /\ prev = <<>> /\ wr = NoOp /\ pc = "start"
        /\ IdleRecon

\* w, h, _fields, ls, pf, batch: fields is None or the caller's table
CreateScan(fields_given) ==
    /\ bpc = "start"
    /\ LET r == IF fields_given THEN [ret |-> [kind |-> "fields"], tables |-> tables]
                ELSE default_scan_fields(tables, info.udp_profile_lidar, FALSE, FALSE)
       IN  /\ tables' = r.tables
           /\ bpc' = IF r.ret.kind = "fields" THEN "loop" ELSE "failed"
           /\ op' = IF r.ret.kind = "fields" THEN NoOp
                    ELSE Raised("buffers_to_scan", info.udp_profile_lidar, "TypeError")
    /\ UNCHANGED <<info, data, prev, wr, pc, ret, lidar_bufs, submitted, scan, gen>>

\* one iteration of the loop over lidar_bufs: assert not batch(buf, ls)
SubmitBuffer(done) ==
    /\ bpc = "loop"
    /\ Len(submitted) < Len(lidar_bufs)
    /\ submitted' = Append(submitted,
                           Submission("buf", lidar_bufs[Len(submitted) + 1], done))
    /\ bpc' = IF done THEN "failed" ELSE "loop"
    /\ op' = IF done
             THEN Raised("buffers_to_scan", info.udp_profile_lidar, "AssertionError")
             ELSE op
    /\ UNCHANGED <<info, data, prev, wr, pc, ret, tables, lidar_bufs, scan, gen>>

\* if lidar_bufs: assert batch(terminator_buffer(info, lidar_bufs[-1]), ls)
SubmitTerminator(done) ==
    /\ bpc = "loop"
    /\ Len(submitted) = Len(lidar_bufs)
    /\ lidar_bufs # <<>>
    /\ LET t == terminator_buffer(info, lidar_bufs[Len(lidar_bufs)])
       IN  IF t.err # "none"
           THEN /\ submitted' = submitted
                /\ bpc' = "failed"
                /\ op' = Raised("buffers_to_scan", info.udp_profile_lidar, t.err)
                /\ ret' = ret
           ELSE /\ submitted' = Append(submitted, Submission("term", t.buf, done))
                /\ bpc' = IF done THEN "returned" ELSE "failed"
                /\ op' = IF done THEN op
                         ELSE Raised("buffers_to_scan", info.udp_profile_lidar,
                                     "AssertionError")
                /\ ret' = IF done THEN [kind |-> "scan"] ELSE ret
    /\ UNCHANGED <<info, data, prev, wr, pc, tables, lidar_bufs, scan, gen>>

\* an empty list: return ls
ReturnEmpty ==
    /\ bpc = "loop"
    /\ lidar_bufs = <<>>
    /\ bpc' = "returned"
    /\ ret' = [kind |-> "scan"]
    /\ UNCHANGED <<info, data, prev, op, wr, pc, tables, lidar_bufs, submitted, scan, gen>>

NextBatch ==
    \/ \E fields_given \in BOOLEAN : CreateScan(fields_given)
    \/ \E done \in BOOLEAN : SubmitBuffer(done)
    \/ \E done \in BOOLEAN : SubmitTerminator(done)
    \/ ReturnEmpty

SpecBatch == InitBatch /\ [][NextBatch]_vars

\* C3 (as stated): the supplied buffers are submitted in list order, each
\* once; nothing is submitted after a supplied buffer reports completion and
\* the call fails there; otherwise, iff the list is non-empty, one terminator
\* built from the last element follows, and the call fails iff that one does
\* not report completion; an empty list submits nothing and returns the scan.
C3_SubmitsAllThenTerminator ==
    LET n == Len(lidar_bufs)
        m == Len(submitted)
    IN  /\ m <= (IF n = 0 THEN 0 ELSE n + 1)
        /\ \A i \in 1..m :
              /\ i <= n => submitted[i] = Submission("buf", lidar_bufs[i], submitted[i].done)
              /\ i = n + 1 => /\ submitted[i].kind = "term"
                              /\ submitted[i].buf = terminator_buffer(info, lidar_bufs[n]).buf
              /\ i < m => ~submitted[i].done
        /\ bpc = "returned" =>
              /\ ret = [kind |-> "scan"]
              /\ m = (IF n = 0 THEN 0 ELSE n + 1)
              /\ n > 0 => submitted[m].done
        /\ bpc = "failed" =>
              /\ m > 0
              /\ \/ m <= n /\ submitted[m].done
                 \/ m = n + 1 /\ ~submitted[m].done

-----------------------------------------------------------------------------
(* SpecRecon: packet buffers rebuilt from the RAW_HEADERS field of a scan.  *)
(* A scan is [has_rh, itemsize, h, w, cols]: cols[c + 1] is the bytes of    *)
(* column c of the field, h elements of itemsize bytes each.                *)

MaxWidth == 3
ExtraRows == 1

\* element sizes of the unsigned integer types a scan field can have
ItemSizes == {1, 2, 4, 8}

LidarScan(has_rh, itemsize, h, w, cols) ==
    [has_rh |-> has_rh, itemsize |-> itemsize, h |-> h, w |-> w, cols |-> cols]

\* np.any
np_any(bs) == \E k \in 1..Len(bs) : bs[k] # 0

\* bs repeated to n bytes (a one-element source broadcast over the target)
Broadcast(bs, n) == [k \in 1..n |-> bs[((k - 1) % Len(bs)) + 1]]

\* target[lo:hi] = src on arrays whose elements are unit bytes long, with
\* lo, hi and the lengths in bytes: [err, data]
Assign(target, lo, hi, src, unit) ==
    LET l == Clamp(lo, Len(target))
        u == Clamp(hi, Len(target))
        d == IF u <= l THEN 0 ELSE u - l
    IN  IF Len(src) = d THEN [err |-> "none", data |-> Patch(target, l, src)]
        ELSE IF Len(src) = unit
        THEN [err |-> "none", data |-> Patch(target, l, Broadcast(src, d))]
        ELSE [err |-> "ValueError", data |-> target]

\* a step of a computation that may already have failed
Then(r, lo, hi, src, unit) ==
    IF r.err # "none" THEN r ELSE Assign(r.data, lo, hi, src, unit)

\* int(size / buf_view_isize)
int_div(size, isize) == size \div isize

\* field_rh[a:b, c] as bytes
field_rh(ls, a, b, c) == Slice(ls.cols[c + 1], a * ls.itemsize, b * ls.itemsize)

\* the copies of the columns pck, pck + 1, .. of the group at pi (gen_scan_buffers_fast)
RECURSIVE FastColumns(_, _, _, _, _)
FastColumns(ls, pf, pi, pck, r) ==
    LET isz == ls.itemsize
        packet_header_size == int_div(pf.packet_header_size, isz)
        col_header_size == int_div(pf.col_header_size, isz)
        col_footer_size == int_div(pf.col_footer_size, isz)
        col_size == int_div(pf.column_size, isz)
        col_offset == packet_header_size + pck * col_size
    IN  IF r.err # "none" \/ pck >= pf.columns_per_packet THEN r
        ELSE IF pi + pck >= ls.w THEN [err |-> "IndexError", data |-> r.data]
        ELSE LET r1 == Then(r, col_offset * isz, (col_offset + col_header_size) * isz,
                            field_rh(ls, 0, col_header_size, pi + pck), isz)
                 r2 == Then(r1, (col_offset + col_size - col_footer_size) * isz,
                            (col_offset + col_size) * isz,
                            field_rh(ls, col_header_size,
                                     col_header_size + col_footer_size, pi + pck), isz)
             IN  FastColumns(ls, pf, pi, pck + 1, r2)

\* the buffer gen_scan_buffers_fast builds for the group at pi: [err, data]
FastPacket(ls, pf, pi) ==
    LET isz == ls.itemsize
        packet_header_size == int_div(pf.packet_header_size, isz)
        col_header_size == int_div(pf.col_header_size, isz)
        col_footer_size == int_div(pf.col_footer_size, isz)
        col_size == int_div(pf.column_size, isz)
        packet_footer_size == int_div(pf.packet_footer_size, isz)
        buf == Filled(pf.lidar_packet_size, 0)
        at == col_header_size + col_footer_size
    IN  IF pf.lidar_packet_size % isz # 0 THEN [err |-> "ValueError", data |-> buf]
        ELSE LET r1 == Assign(buf, 0, packet_header_size * isz,
                              field_rh(ls, at, at + packet_header_size, pi), isz)
                 r2 == Then(r1, (packet_header_size + pf.columns_per_packet * col_size) * isz,
                            Len(buf),
                            field_rh(ls, at + packet_header_size,
                                     at + packet_header_size + packet_footer_size, pi),
                            isz)
             IN  FastColumns(ls, pf, pi, 0, r2)

\* LidarPacketHeaders: byte ranges <<lo, hi>> of a packet buffer
LidarPacketHeaders_packet_header(pf) ==
    IF pf.packet_header_size # 0 THEN <<0, pf.packet_header_size>> ELSE <<0, 0>>

LidarPacketHeaders_packet_footer(pf) ==
    IF pf.packet_footer_size # 0
    THEN <<pf.lidar_packet_size - pf.packet_footer_size, pf.lidar_packet_size>>
    ELSE <<0, 0>>

LidarPacketHeaders_col_header(pf, col_idx) ==
    LET col_offset == pf.packet_header_size + pf.column_size * col_idx
    IN  IF pf.col_header_size # 0 THEN <<col_offset, col_offset + pf.col_header_size>>
        ELSE <<0, 0>>

LidarPacketHeaders_col_footer(pf, col_idx) ==
    LET col_end_offset == pf.packet_header_size + pf.column_size * (col_idx + 1)
    IN  IF pf.col_footer_size # 0 THEN <<col_end_offset - pf.col_footer_size, col_end_offset>>
        ELSE <<0, 0>>

\* RawHeadersFormat: bytes of a column of the field
RawHeadersFormat_packet_header(pf, col_view) ==
    LET header_offset == pf.col_header_size + pf.col_footer_size
    IN  IF pf.packet_header_size # 0
        THEN Slice(col_view, header_offset, header_offset + pf.packet_header_size)
        ELSE <<>>

RawHeadersFormat_packet_footer(pf, col_view) ==
    LET footer_offset == pf.col_header_size + pf.col_footer_size + pf.packet_header_size
    IN  IF pf.packet_footer_size # 0
        THEN Slice(col_view, footer_offset, footer_offset + pf.packet_footer_size)
        ELSE <<>>

RawHeadersFormat_col_footer(pf, col_view) ==
    IF pf.col_footer_size # 0
    THEN Slice(col_view, pf.col_header_size, pf.col_header_size + pf.col_footer_size)
    ELSE <<>>

RawHeadersFormat_col_header(pf, col_view) ==
    IF pf.col_header_size # 0 THEN Slice(col_view, 0, pf.col_header_size) ELSE <<>>

\* the copies of the columns pck, pck + 1, .. of the group at pi (gen_scan_buffers_nice)
RECURSIVE NiceColumns(_, _, _, _, _)
NiceColumns(ls, pf, pi, pck, r) ==
    IF r.err # "none" \/ pck >= pf.columns_per_packet THEN r
    ELSE IF pi + pck >= ls.w THEN [err |-> "IndexError", data |-> r.data]
    ELSE LET col == ls.cols[pi + pck + 1]
             ch == LidarPacketHeaders_col_header(pf, pck)
             cf == LidarPacketHeaders_col_footer(pf, pck)
             r1 == Then(r, ch[1], ch[2], RawHeadersFormat_col_header(pf, col), 1)
             r2 == Then(r1, cf[1], cf[2], RawHeadersFormat_col_footer(pf, col), 1)
         IN  NiceColumns(ls, pf, pi, pck + 1, r2)

\* the buffer gen_scan_buffers_nice builds for the group at pi: [err, data]
NicePacket(ls, pf, pi) ==
    LET buf == Filled(pf.lidar_packet_size, 0)
        col == ls.cols[pi + 1]
        ph == LidarPacketHeaders_packet_header(pf)
        pft == LidarPacketHeaders_packet_footer(pf)
        r1 == Assign(buf, ph[1], ph[2], RawHeadersFormat_packet_header(pf, col), 1)
        r2 == Then(r1, pft[1], pft[2], RawHeadersFormat_packet_footer(pf, col), 1)
    IN  NiceColumns(ls, pf, pi, 0, r2)

\* for pi in range(pi, ls.w, columns_per_packet): the buffers yielded, and
\* the error that ended the iteration, if any
RECURSIVE Generate(_, _, _, _, _)
Generate(fast, ls, pf, pi, bufs) ==
    IF pi >= ls.w THEN [bufs |-> bufs, err |-> "none"]
    ELSE IF ~np_any(ls.cols[pi + 1])
    THEN Generate(fast, ls, pf, pi + pf.columns_per_packet, bufs)
    ELSE LET r == IF fast THEN FastPacket(ls, pf, pi) ELSE NicePacket(ls, pf, pi)
         IN  IF r.err # "none" THEN [bufs |-> bufs, err |-> r.err]
             ELSE Generate(fast, ls, pf, pi + pf.columns_per_packet, Append(bufs, r.data))

gen_scan_buffers_fast(ls, meta) ==
    IF ~ls.has_rh THEN [bufs |-> <<>>, err |-> "none"]
    ELSE Generate(TRUE, ls, ClientPacketFormat(meta), 0, <<>>)

gen_scan_buffers_nice(ls, meta) ==
    IF ~ls.has_rh THEN [bufs |-> <<>>, err |-> "none"]
    ELSE Generate(FALSE, ls, ClientPacketFormat(meta), 0, <<>>)

gen_scan_buffers(ls, meta) == gen_scan_buffers_fast(ls, meta)

\* list(gen_scan_buffers(ls, info)): the buffers gathered until the
\* generator ends or raises
scan_to_buffers(ls, meta) == gen_scan_buffers(ls, meta)

\* bytes of one column of RAW_HEADERS that the headers and footers take
RawHeadersBytes(pf) ==
    pf.col_header_size + pf.col_footer_size + pf.packet_header_size + pf.packet_footer_size

\* the fewest rows of isize-byte elements that hold them
RawHeaderRows(pf, isize) == (RawHeadersBytes(pf) + isize - 1) \div isize

\* a column of the field: never written ("zero") or written by the batcher
ColumnFills == {"zero", "ramp"}

NotRun == [bufs |-> <<>>, err |-> "not run"]

InitRecon ==
    \E profile \in SupportedProfiles, cpp \in 1..MaxCols, w \in 1..MaxWidth,
       has_rh \in BOOLEAN, isize \in ItemSizes, extra \in 0..ExtraRows :
        \E fills \in [1..w -> ColumnFills] :
            LET h == RawHeaderRows(from_profile(profile, 1, 1).pf, isize) + extra
            IN  /\ has_rh \/ (isize = 4 /\ extra = 0 /\ \A c \in 1..w : fills[c] = "zero")
                /\ info = SensorInfo(profile, h, cpp, w)
                /\ scan = LidarScan(has_rh, isize, h, w,
                                    IF has_rh
                                    THEN [c \in 1..w |-> Buffer(fills[c], h * isize)]
                                    ELSE <<>>)
                /\ gen = [fast |-> NotRun, nice |-> NotRun]
                /\ op = NoOp
                /\ data = <<>> /\ prev = <<>> /\ wr = NoOp /\ pc = "start"
                /\ ret = NoReturn
                /\ tables = IdleTables
                /\ IdleBatch

\* scan_to_buffers(ls, info)
ScanToBuffers ==
    /\ gen.fast = NotRun
    /\ gen' = [gen EXCEPT !.fast = scan_to_buffers(scan, info)]
    /\ UNCHANGED <<info, data, prev, op, wr, pc, ret, tables, lidar_bufs, submitted, bpc, scan>>

\* list(gen_scan_buffers_nice(ls, info))
GenScanBuffersNice ==
    /\ gen.nice = NotRun
    /\ gen' = [gen EXCEPT !.nice = gen_scan_buffers_nice(scan, info)]
    /\ UNCHANGED <<info, data, prev, op, wr, pc, ret, tables, lidar_bufs, submitted, bpc, scan>>

NextRecon ==
    \/ ScanToBuffers
    \/ GenScanBuffersNice

SpecRecon == InitRecon /\ [][NextRecon]_vars

\* first columns of the packet groups of the scan, in order
GroupStarts ==
    [g \in 1..((scan.w + info.columns_per_packet - 1) \div info.columns_per_packet)
        |-> (g - 1) * info.columns_per_packet]

Populated(pi) == np_any(scan.cols[pi + 1])

PopulatedGroups == SelectSeq(GroupStarts, Populated)

\* C6 (as stated): the fast and the structured reconstruction yield the
\* same buffers, in the same order, for every scan, supported profile,
\* geometry and element width of RAW_HEADERS.
C6_FastEqualsNice ==
    (gen # <<>> /\ gen.fast # NotRun /\ gen.nice # NotRun)
        => gen.fast.bufs = gen.nice.bufs

\* C7 (as stated): scan_to_buffers completes without error and yields one
\* buffer for each packet group whose first column is populated and none for
\* the others, whether or not columns_per_packet divides columns_per_frame:
\* ceil(columns_per_frame / columns_per_packet) buffers when all are populated.
C7_OneBufferPerPopulatedGroup ==
    (gen # <<>> /\ gen.fast # NotRun /\ scan.has_rh)
        => /\ gen.fast.err = "none"
           /\ Len(gen.fast.bufs) = Len(PopulatedGroups)

\* the packet of the group at pi as section 4.5 describes it: headers and
\* footers from the RAW_HEADERS columns, zero elsewhere
ExpectedPacket(pi) ==
    LET pf == ClientPacketFormat(info)
        col0 == scan.cols[pi + 1]
        byte(k) ==
            IF k < pf.packet_header_size
            THEN col0[pf.col_header_size + pf.col_footer_size + k + 1]
            ELSE IF k >= pf.lidar_packet_size - pf.packet_footer_size
            THEN col0[pf.col_header_size + pf.col_footer_size + pf.packet_header_size
                      + (k - (pf.lidar_packet_size - pf.packet_footer_size)) + 1]
            ELSE LET c == (k - pf.packet_header_size) \div pf.column_size
                     o == (k - pf.packet_header_size) % pf.column_size
                 IN  IF pi + c >= scan.w THEN 0
                     ELSE IF o < pf.col_header_size THEN scan.cols[pi + c + 1][o + 1]
                     ELSE IF o >= pf.column_size - pf.col_footer_size
                     THEN scan.cols[pi + c + 1][pf.col_header_size
                                                + (o - (pf.column_size - pf.col_footer_size)) + 1]
                     ELSE 0
    IN  [k \in 1..pf.lidar_packet_size |-> byte(k - 1)]

\* C8 (as stated): every buffer reconstruction yields has packet_size bytes,
\* carries the packet header and footer of its group's first column and the
\* column header and footer of each of its columns, and is zero elsewhere.
C8_HeadersAndFootersOnly ==
    (gen # <<>> /\ gen.fast # NotRun)
        => \A k \in 1..Len(gen.fast.bufs) :
              gen.fast.bufs[k] = ExpectedPacket(PopulatedGroups[k])

-----------------------------------------------------------------------------
(* SpecConv: calls of PacketFormat.convertible on the format classes; ret   *)
(* collects what each call returned.                                        *)

MaxCalls == 3

\* a variant of convertible that looks at the channel fields only
convertible_FieldsOnly(a, b) ==
    \A f \in DOMAIN FIELDS(b) : f \in DOMAIN FIELDS(a)

\* PacketFormat.convertible(a, b)
convertible(a, b) ==
    /\ \A f \in DOMAIN FIELDS(b) : f \in DOMAIN FIELDS(a)
    /\ \A h \in DOMAIN HEADERS(b) : h \in DOMAIN HEADERS(a)

NoCalls == [kind |-> "convertible", calls |-> {}]

InitConv ==
    /\ ret = NoCalls
    /\ op = NoOp
    /\ info = NoInfo
    /\ data = <<>> /\ prev = <<>> /\ wr = NoOp /\ pc = "start"
    /\ tables = IdleTables
    /\ IdleBatch
    /\ IdleRecon

\* convertible(a, b), the answer kept with the arguments
Convertible(a, b) ==
    /\ Cardinality(ret.calls) < MaxCalls
    /\ ret' = [ret EXCEPT !.calls = @ \cup {<<a, b, convertible(a, b)>>}]
    /\ op' = Op("convertible", a, <<0, 0>>, 0, "none", ZeroBits, <<>>)
    /\ UNCHANGED <<info, data, prev, wr, pc, tables, lidar_bufs, submitted, bpc, scan, gen>>

NextConv == \E a \in FormatClasses, b \in FormatClasses : Convertible(a, b)

SpecConv == InitConv /\ [][NextConv]_vars

\* the calls made so far
Calls == IF ret.kind = "convertible" THEN ret.calls ELSE {}

KeysWithin(b, a) ==
    /\ DOMAIN FIELDS(b) \subseteq DOMAIN FIELDS(a)
    /\ DOMAIN HEADERS(b) \subseteq DOMAIN HEADERS(a)

\* C11: convertible(A, B) is true exactly when the channel keys and the
\* column-header keys of B are among those of A; so convertible(A, A) is
\* true, the relation is transitive, and when the keys of B are a proper
\* part of those of A, convertible(A, B) is true and convertible(B, A) false.
C11_ConvertibleIsKeySubset ==
    /\ \A c \in Calls : c[3] <=> KeysWithin(c[2], c[1])
    /\ \A c \in Calls : c[1] = c[2] => c[3]
    /\ \A c \in Calls, d \in Calls, e \in Calls :
          (c[2] = d[1] /\ e[1] = c[1] /\ e[2] = d[2] /\ c[3] /\ d[3]) => e[3]
    /\ \A c \in Calls, d \in Calls :
          (d[1] = c[2] /\ d[2] = c[1] /\ KeysWithin(c[2], c[1])
           /\ (DOMAIN FIELDS(c[2]) # DOMAIN FIELDS(c[1])
               \/ DOMAIN HEADERS(c[2]) # DOMAIN HEADERS(c[1])))
              => c[3] /\ ~d[3]

C11_Witness ==
    /\ <<"LegacyFormat", "LBFormat", TRUE>> \in Calls
    /\ <<"LBFormat", "LegacyFormat", FALSE>> \in Calls
    /\ <<"SingleFormat", "SingleFormat", TRUE>> \in Calls

-----------------------------------------------------------------------------
(* Claims about the construction of views (SpecView).                       *)

ViewOps == {"field_get", "field_set", "header_get", "header_set"}

\* the profile defines the key of the view operation o
Defined(o) ==
    IF o.name \in {"field_get", "field_set"} THEN o.key \in DOMAIN FIELDS(PF.cls)
    ELSE o.key \in DOMAIN HEADERS(PF.cls)

\* one step of a view operation on the buffer data
ViewOutcome ==
    op'.name \in ViewOps =>
        /\ op'.err = "none" => (Len(data) >= PF.lidar_packet_size /\ Defined(op'))
        /\ Len(data) < PF.lidar_packet_size => op'.err = "BufferTooSmall"
        /\ (Len(data) >= PF.lidar_packet_size /\ ~Defined(op')) => op'.err = "KeyError"
        /\ op'.err # "none" => data' = data

\* C12: field(buffer, key) and header(buffer, key) give a view only when the
\* buffer has at least packet_size bytes and the profile defines the key; a
\* shorter buffer fails with the buffer-too-small error, a key the profile
\* does not define fails with the unknown-field error (KeyError), and a
\* failed call leaves the buffer as it was.
C12_ViewOrError == [][ViewOutcome]_vars

C12_Witness ==
    /\ info.udp_profile_lidar = PROFILE_LIDAR_RNG15_RFL8_NIR8
    /\ Len(data) = PF.lidar_packet_size
    /\ op.name = "field_get" /\ op.key = "SIGNAL" /\ op.err = "KeyError"

-----------------------------------------------------------------------------
(* Claims about reads of the Low-bandwidth fields (SpecView).               *)

\* the stored word of element (i, j) of a field of the metadata's format
Stored(field, i, j) ==
    LET v == PacketFormat_field(PF, data, field)
        a == ElemAddr(v, i, j)
    IN  IF v.dtype = 1 THEN data[a + 1] ELSE data[a + 1] + 256 * data[a + 2]

\* what a read of element (i, j) of RANGE or NEAR_IR is to return
LBValue(field, i, j) ==
    IF field = "RANGE" THEN (Stored(field, i, j) % 32768) * 8
    ELSE Stored(field, i, j) * 16

\* C13 (as stated): on the Low-bandwidth profile every read of RANGE returns
\* (stored word AND 0x7fff) * 8 and every read of NEAR_IR the stored byte
\* * 16: the left shift is not cut to the 16 or 8 bits of the stored word.
C13_ReadNotTruncated ==
    (/\ info.udp_profile_lidar = PROFILE_LIDAR_RNG15_RFL8_NIR8
     /\ pc = "done" /\ op.err = "none" /\ op.key \in {"RANGE", "NEAR_IR"})
        => /\ op.name = "field_get"
              => op.result = IntBits(LBValue(op.key, op.idx[1], op.idx[2]))
           /\ op.name = "field_get_column"
              => \A r \in 1..Len(ret.values) :
                    ret.values[r] = IntBits(LBValue(op.key, r - 1, op.idx[2]))

-----------------------------------------------------------------------------
(* Claims about the packet-level setters (SpecPacket).                      *)

GetterOf(setter) ==
    CASE setter = "set_packet_type" -> "packet_type"
      [] setter = "set_frame_id" -> "frame_id"
      [] setter = "set_init_id" -> "init_id"
      [] setter = "set_prod_sn" -> "prod_sn"

\* the packet-header bytes <<first, last + 1>> of a field (extended family)
HeaderBytes(setter) ==
    CASE setter = "set_packet_type" -> <<0, 2>>
      [] setter = "set_frame_id" -> <<2, 4>>
      [] setter = "set_init_id" -> <<4, 7>>
      [] setter = "set_prod_sn" -> <<7, 12>>

\* val fits the bytes of the field (every value here fits 4 bytes or more)
Fits(setter, val) ==
    LET n == HeaderBytes(setter)[2] - HeaderBytes(setter)[1]
    IN  n >= 4 \/ val < Pow2(8 * n)

\* byte k (from 0) of a legacy packet belongs to the FRAME_ID of a column
InFrameId(k) ==
    k < PF.lidar_packet_size /\ (k % PF.column_size) \in {10, 11}

\* the state after the setter op on a legacy buffer prev
LegacySetterFrame ==
    IF op.name = "set_frame_id"
    THEN /\ op.err = "none"
         /\ Len(data) = Len(prev)
         /\ \A k \in 1..Len(data) : ~InFrameId(k - 1) => data[k] = prev[k]
         /\ frame_id(PF, data) = [err |-> "none", result |-> IntBits(op.val)]
    ELSE /\ op.err = "none"
         /\ data = prev
         /\ Getter(GetterOf(op.name), PF, data) = [err |-> "none", result |-> ZeroBits]

\* the state after the setter op on an extended-family buffer prev
ExtendedSetterFrame ==
    LET b == HeaderBytes(op.name)
    IN  /\ op.err = "none"
        /\ data = Patch(prev, b[1], BitsBytes(IntBits(op.val), b[2] - b[1]))
        /\ Getter(GetterOf(op.name), PF, data) = [err |-> "none", result |-> IntBits(op.val)]
        /\ \A g \in Getters \ {GetterOf(op.name)} :
              Getter(g, PF, data) = Getter(g, PF, prev)

\* C14 (as stated): on a buffer of at least packet_size bytes a packet-level
\* setter changes only its own field.  Extended family: the value, when it
\* fits, is written little-endian to bytes 0..1, 2..3, 4..6 or 7..11, the
\* matching getter returns it, the other getters and bytes are unchanged.
\* Legacy: set_packet_type, set_init_id and set_prod_sn change nothing and
\* their getters return 0; set_frame_id changes only the FRAME_ID bytes of
\* the column headers and frame_id returns the value written.
C14_SetterFrame ==
    (/\ Len(data) >= PF.lidar_packet_size
     /\ pc = "written" /\ op.name \in Setters /\ Fits(op.name, op.val))
        => IF PF.cls = "LegacyFormat" THEN LegacySetterFrame ELSE ExtendedSetterFrame

-----------------------------------------------------------------------------
(* Claims about the frame id of the terminator (SpecTerm).                  *)

\* C15: for a supported profile terminator_buffer returns a buffer, and the
\* frame id read back from it (by the client format and by frame_id) is
\* different from the frame id f of the last real buffer, for every f
\* including 65534 and 65535.
C15_TerminatorFrameDiffers ==
    (op.name = "terminator_buffer" /\ op.key \in SupportedProfiles)
        => /\ op.err = "none"
           /\ Len(op.buf) = PF.lidar_packet_size
           /\ ClientFrameId(info, op.buf) # op.val
           /\ frame_id(PF, op.buf).result # IntBits(op.val)

\* the terminator after a last buffer with frame id 65535 carries frame id 1
C15_Witness ==
    /\ op.name = "terminator_buffer"
    /\ op.key \in SupportedProfiles
    /\ op.err = "none"
    /\ op.val = 65535
    /\ ClientFrameId(info, op.buf) = 1

-----------------------------------------------------------------------------
(* SpecReconAnyHeight: SpecRecon, and also scans whose columns are one row  *)
(* too short for the header and footer bytes of their profile.              *)

InitReconShort ==
    \E profile \in SupportedProfiles, cpp \in 1..MaxCols, w \in 1..MaxWidth,
       isize \in ItemSizes :
        \E fills \in [1..w -> ColumnFills] :
            LET h == RawHeaderRows(from_profile(profile, 1, 1).pf, isize) - 1
            IN  /\ info = SensorInfo(profile, h, cpp, w)
                /\ scan = LidarScan(TRUE, isize, h, w,
                                    [c \in 1..w |-> Buffer(fills[c], h * isize)])
                /\ gen = [fast |-> NotRun, nice |-> NotRun]
                /\ op = NoOp
                /\ data = <<>> /\ prev = <<>> /\ wr = NoOp /\ pc = "start"
                /\ ret = NoReturn
                /\ tables = IdleTables
                /\ IdleBatch

SpecReconAnyHeight == (InitRecon \/ InitReconShort) /\ [][NextRecon]_vars

\* the rows <<first, last + 1>> of a RAW_HEADERS column that
\* gen_scan_buffers_fast reads: column header, column footer, packet header,
\* packet footer
FastSubRanges(pf, isz) ==
    LET chs == int_div(pf.col_header_size, isz)
        cfs == int_div(pf.col_footer_size, isz)
        phs == int_div(pf.packet_header_size, isz)
        pfs == int_div(pf.packet_footer_size, isz)
    IN  << <<0, chs>>, <<chs, chs + cfs>>, <<chs + cfs, chs + cfs + phs>>,
           <<chs + cfs + phs, chs + cfs + phs + pfs>> >>

\* scan_to_buffers has reached the copies of a populated group
CopiesMade ==
    /\ gen # <<>> /\ gen.fast # NotRun
    /\ scan.has_rh
    /\ PopulatedGroups # <<>>
    /\ ClientPacketFormat(info).lidar_packet_size % scan.itemsize = 0

\* every sub-range read lies inside the slice of scan.h elements
SubRangesInside ==
    CopiesMade =>
        \A k \in 1..4 : FastSubRanges(ClientPacketFormat(info), scan.itemsize)[k][2] <= scan.h

\* every column index read is below the scan width
ColumnsInside ==
    (gen # <<>> /\ gen.fast # NotRun) => gen.fast.err # "IndexError"

\* C16 (as stated): during reconstruction every sub-range read from a
\* column's RAW_HEADERS slice lies inside that slice of pixels_per_column
\* elements and every scan column index read is below the scan width, for
\* every supported profile and geometry.
C16_ReadsInBounds == SubRangesInside /\ ColumnsInside

====
